---- MODULE Spec2Model ----
(***************************************************************************)
(* Model of bevy_rollback_archive: the RollbackBuffer (snapshot ring,      *)
(* deferred changes, tracked / overridden resources) and the RollbackStage *)
(* replay loop of src/src/lib.rs.                                          *)
(***************************************************************************)
EXTENDS Integers, Sequences, FiniteSets, TLC

\* ---------------------------------------------------------------- bounds
MaxCap == 4          \* buffer_size ranges over 1..MaxCap
MaxFrame == 6        \* ticks stop once newest_frame reaches MaxFrame
MaxChanges == 2      \* accepted past_frame_change calls over a run
MaxCommands == 3     \* commands a LogicCommands buffer holds, entities spawned per buffer

\* resource types the application registers, and the deferred operations
ResTypes == {"counter", "input"}
Ops == {"set_counter_to_100"}

VARIABLES
    newest_frame,        \* RollbackBuffer.newest_frame
    rollback_state,      \* RollbackBuffer.rollback_state
    current_world,       \* RollbackBuffer.current_world
    current_resources,   \* RollbackBuffer.current_resources
    buffered_changes,    \* RollbackBuffer.buffered_changes
    past_worlds,         \* RollbackBuffer.past_worlds
    past_resources,      \* RollbackBuffer.past_resources
    resource_rollback,   \* RollbackBuffer.resource_rollback
    resource_override,   \* RollbackBuffer.resource_override
    initialized,         \* RollbackStage.initialized
    pc,                  \* "setup" | "idle" | "loop" : position of the host
    panic,               \* "none" or the message of the panic that aborted
    last_call,           \* frame, newest_frame and result of the last past_frame_change
    ncalls,              \* history: number of accepted past_frame_change calls
    log,                 \* history: events since the previous tick returned
    stored_for,          \* history: the state argument each slot was last stored with
    napplied,            \* history: number of deferred operations applied so far
    threads,             \* systems inside past_frame_change through the shared &self
    run_criteria,        \* RollbackStage.run_criteria is Some
    should_run,          \* the last answer of the run criteria inside RollbackStage::run
    system_state,        \* SystemState.resource_access of a system being initialized
    commands,            \* LogicCommands.commands of a logic system
    world,               \* the World of the app, passed to LogicCommands::apply
    resources            \* the Resources of the app beside the RollbackBuffer

buffer == <<newest_frame, rollback_state, current_world, current_resources,
            buffered_changes, past_worlds, past_resources,
            resource_rollback, resource_override>>
vars == <<newest_frame, rollback_state, current_world, current_resources,
          buffered_changes, past_worlds, past_resources,
          resource_rollback, resource_override, initialized,
          pc, panic, last_call, ncalls, log, stored_for, napplied, threads,
          run_criteria, should_run, system_state, commands, world, resources>>

\* what the buffer operations never touch: the stage's run criteria and the
\* access sets of a system under initialization
stage == <<run_criteria, should_run, system_state, commands, world, resources>>

\* ------------------------------------------------------------- data types
None == <<>>
Some(v) == <<v>>
IsSome(o) == o # None
Unwrap(o) == o[1]

Rollback(f) == [tag |-> "Rollback", frame |-> f]
Rolledback(f) == [tag |-> "Rolledback", frame |-> f]

EmptyResources == [r \in {} |-> 0]
Insert(res, r, v) == [x \in (DOMAIN res) \cup {r} |-> IF x = r THEN v ELSE res[x]]

NoCall == [frame |-> 0, at |-> 0, ret |-> "none"]

\* two systems of one parallel stage may hold Res<RollbackBuffer> together
Threads == {1, 2}
Returned == [at |-> "returned", frame |-> 0, op |-> "", seen |-> [tag |-> "", frame |-> 0]]
Event(e, f, o, w, r) == [ev |-> e, frame |-> f, ops |-> o, world |-> w, res |-> r]

Range(s) == {s[i] : i \in DOMAIN s}
Last(s) == s[Len(s)]
Min(S) == CHOOSE x \in S : \A y \in S : x <= y

Capacity == Cardinality(DOMAIN past_worlds)

\* the RollbackBuffer as one value, for the operators that transform it
Buf == [current_world |-> current_world,
        current_resources |-> current_resources,
        buffered_changes |-> buffered_changes,
        past_worlds |-> past_worlds,
        past_resources |-> past_resources,
        resource_rollback |-> resource_rollback,
        resource_override |-> resource_override,
        panic |-> panic,
        log |-> log,
        stored_for |-> stored_for,
        napplied |-> napplied]

\* -------------------------------------------------- external collaborators
\* the logic schedule: one deterministic SimulationStep over the live state
\* (the world is one value, copied whole by store_new_world)
SimulationStepWorld(w) == w + 1
SimulationStepResources(res) == [r \in DOMAIN res |-> res[r] + 1]

\* a deferred operation (a system run on current_world / current_resources)
OpTarget(op) == "counter"
ApplyOp(op, res) ==
    IF OpTarget(op) \in DOMAIN res THEN [res EXCEPT ![OpTarget(op)] = 100] ELSE res

RECURSIVE ApplyOps(_, _)
ApplyOps(ops, res) ==
    IF ops = <<>> THEN res ELSE ApplyOps(Tail(ops), ApplyOp(Head(ops), res))

\* ------------------------------------------------------- snapshot storage
\* the closures pushed by track_resource / override_resource, run in order:
\* dest.insert(src.get_cloned::<R>().unwrap())
RECURSIVE CopyResources(_, _, _)
CopyResources(fns, dest, src) ==
    IF fns = <<>> THEN dest
    ELSE CopyResources(Tail(fns), Insert(dest, Head(fns), src[Head(fns)]), src)

\* the closures the loop of store_new_resources invokes, in order
RECURSIVE CopyCalls(_)
CopyCalls(fns) ==
    IF fns = <<>> THEN <<>> ELSE <<Head(fns)>> \o CopyCalls(Tail(fns))

store_new_resources(b, state) ==
    LET new_resources == CopyResources(b.resource_rollback, EmptyResources, b.current_resources)
        buffer_pos == state % Cardinality(DOMAIN b.past_resources)
    IN  [b EXCEPT !.past_resources[buffer_pos] = Some(new_resources)]

\* variant: the world is stored one slot after the resources
store_new_world_next(b, state) ==
    LET new_world == b.current_world
        buffer_pos == (state + 1) % Cardinality(DOMAIN b.past_resources)
    IN  [b EXCEPT !.past_worlds[buffer_pos] = Some(new_world),
                  !.stored_for[buffer_pos] = state]

store_new_world(b, state) ==
    LET new_world == b.current_world
        buffer_pos == state % Cardinality(DOMAIN b.past_resources)
    IN  [b EXCEPT !.past_worlds[buffer_pos] = Some(new_world),
                  !.stored_for[buffer_pos] = state]

StoreEverything(b, state) ==
    LET b1 == store_new_world(store_new_resources(b, state + 1), state + 1)
    IN  [b1 EXCEPT !.log = Append(@, Event("store", state + 1, CopyCalls(b.resource_rollback),
                                           b1.current_world, b1.current_resources))]

\* ---------------------------------------------------------------- run_once
\* variant: the batch is read but stays in the queue
ApplyChanges_keep(b, state) ==
    IF state \in DOMAIN b.buffered_changes
    THEN LET changes == b.buffered_changes[state]
             res == ApplyOps(changes, b.current_resources)
         IN  [b EXCEPT !.current_resources = res,
                       !.napplied = @ + Len(changes),
                       !.log = Append(@, Event("apply", state, changes, b.current_world, res))]
    ELSE b

ApplyChanges(b, state) ==
    IF state \in DOMAIN b.buffered_changes
    THEN LET changes == b.buffered_changes[state]
             res == ApplyOps(changes, b.current_resources)
         IN  [b EXCEPT !.buffered_changes =
                           [f \in (DOMAIN b.buffered_changes) \ {state} |-> b.buffered_changes[f]],
                       !.current_resources = res,
                       !.napplied = @ + Len(changes),
                       !.log = Append(@, Event("apply", state, changes, b.current_world, res))]
    ELSE b

\* variant: the override functions copy from the live resources
ApplyOverrides_live(b, state) ==
    LET target == state % Cardinality(DOMAIN b.past_resources)
    IN  IF b.resource_override = <<>> THEN b
        ELSE IF ~IsSome(b.past_resources[target])
        THEN [b EXCEPT !.panic = "called Option::unwrap() on a None value"]
        ELSE LET res == CopyResources(b.resource_override, b.current_resources,
                                      b.current_resources)
             IN  [b EXCEPT !.current_resources = res,
                           !.log = Append(@, Event("override", state, <<>>,
                                                   b.current_world, Unwrap(b.past_resources[target])))]

ApplyOverrides(b, state) ==
    LET target == state % Cardinality(DOMAIN b.past_resources)
    IN  IF b.resource_override = <<>> THEN b
        ELSE IF ~IsSome(b.past_resources[target])
        THEN [b EXCEPT !.panic = "called Option::unwrap() on a None value"]
        ELSE LET res == CopyResources(b.resource_override, b.current_resources,
                                      Unwrap(b.past_resources[target]))
             IN  [b EXCEPT !.current_resources = res,
                           !.log = Append(@, Event("override", state, <<>>,
                                                   b.current_world, Unwrap(b.past_resources[target])))]

RunSchedule(b, state) ==
    LET w == SimulationStepWorld(b.current_world)
        res == SimulationStepResources(b.current_resources)
    IN  [b EXCEPT !.current_world = w,
                  !.current_resources = res,
                  !.log = Append(@, Event("step", state, <<>>, w, res))]

\* history only: the live state when run_once returns
EndOfFrame(b, state) ==
    [b EXCEPT !.log = Append(@, Event("end", state, <<>>, b.current_world, b.current_resources))]

\* variant: the overrides are applied after the schedule has run
run_once_override_last(b, state) ==
    LET b1 == RunSchedule(StoreEverything(ApplyChanges(b, state), state), state)
        b2 == ApplyOverrides(b1, state)
    IN  IF b2.panic # "none" THEN b2 ELSE EndOfFrame(b2, state)

\* variant: the schedule runs before the changes of the frame are applied
run_once_changes_last(b, state) ==
    LET b1 == ApplyOverrides(b, state)
    IN  IF b1.panic # "none" THEN b1
        ELSE EndOfFrame(ApplyChanges(RunSchedule(StoreEverything(b1, state), state), state), state)

\* variant: the overrides are applied before the changes of the frame
run_once_override_first(b, state) ==
    LET b1 == ApplyChanges(ApplyOverrides(b, state), state)
    IN  IF b1.panic # "none" THEN b1
        ELSE EndOfFrame(RunSchedule(StoreEverything(b1, state), state), state)

\* statements in sequence: F runs on the buffer as x left it
Then(x, F(_)) == CHOOSE r \in {F(v) : v \in {x}} : TRUE

run_once(b, state) ==
    Then(ApplyChanges(b, state), LAMBDA b0 :
    Then(ApplyOverrides(b0, state), LAMBDA b1 :
        IF b1.panic # "none" THEN b1
        ELSE Then(StoreEverything(b1, state), LAMBDA b2 :
             Then(RunSchedule(b2, state), LAMBDA b3 : EndOfFrame(b3, state)))))

SetBuf(b) ==
    /\ current_world' = b.current_world
    /\ current_resources' = b.current_resources
    /\ buffered_changes' = b.buffered_changes
    /\ past_worlds' = b.past_worlds
    /\ past_resources' = b.past_resources
    /\ panic' = b.panic
    /\ log' = b.log
    /\ stored_for' = b.stored_for
    /\ napplied' = b.napplied

\* the log restarts with the first event after a tick has returned
Logged(e) ==
    IF log # <<>> /\ Last(log).ev = "return" THEN <<e>> ELSE Append(log, e)

\* ------------------------------------------------- commands (commands.rs)
\* the resources the app holds beside the RollbackBuffer
AppResources == [time |-> 0]

\* the commands a logic system queues: spawn, insert_resource
Spawn == [kind |-> "spawn", res |-> "", value |-> 0]
InsertResource(r, v) == [kind |-> "insert_resource", res |-> r, value |-> v]
CommandSet == {Spawn, InsertResource("counter", 5), InsertResource("time", 5)}

\* Command::write on a world (its entity count) and its resources
WriteWorld(c, w) == IF c.kind = "spawn" THEN w + 1 ELSE w
WriteResources(c, res) ==
    IF c.kind = "insert_resource" THEN Insert(res, c.res, c.value) ELSE res

\* bevy_ecs Commands::apply: every command is drained and written in order
RECURSIVE CommandsApplyWorld(_, _)
CommandsApplyWorld(cs, w) ==
    IF cs = <<>> THEN w ELSE CommandsApplyWorld(Tail(cs), WriteWorld(Head(cs), w))

RECURSIVE CommandsApplyResources(_, _)
CommandsApplyResources(cs, res) ==
    IF cs = <<>> THEN res
    ELSE CommandsApplyResources(Tail(cs), WriteResources(Head(cs), res))

\* ------------------------------------------------- system parameters (res.rs)
\* the logic resource types a system asks for
LogicTypes == {"A", "B", "C"}

\* TypeId::of::<T>(), TypeId::of::<L<T>>(), TypeId::of::<RollbackBuffer>()
TypeIdOf(T) == <<"T", T>>
TypeIdOfL(T) == <<"L", T>>
TypeIdOfRollbackBuffer == <<"RollbackBuffer", "">>

\* bevy_ecs TypeAccess: the set of types read or written and the set written
is_write(access, ty) == ty \in access.writes
is_read_or_write(access, ty) == ty \in access.reads_and_writes
add_read(access, ty) == [access EXCEPT !.reads_and_writes = @ \cup {ty}]
add_write(access, ty) ==
    [access EXCEPT !.reads_and_writes = @ \cup {ty}, !.writes = @ \cup {ty}]

\* a system before its parameters are initialized; params is history: the
\* parameters whose init has returned
NewSystem ==
    [resource_access |-> [reads_and_writes |-> {}, writes |-> {}],
     params |-> {},
     panic |-> "none"]

ConflictPanic == "conflicts with another parameter with mutable access"
MutatingPanic == "trying to access Logical Resources while mutating the RollbackBuffer"

\* <LRes<T> as SystemParam>::Fetch::init
FetchLRes_init(st, T) ==
    IF is_write(st.resource_access, TypeIdOfL(T))
    THEN [st EXCEPT !.panic = ConflictPanic]
    ELSE IF is_write(st.resource_access, TypeIdOfRollbackBuffer)
    THEN [st EXCEPT !.panic = MutatingPanic]
    ELSE [st EXCEPT !.resource_access =
                        add_read(add_read(@, TypeIdOfRollbackBuffer), TypeIdOfL(T)),
                    !.params = @ \cup {<<"LRes", T>>}]

\* <LResMut<T> as SystemParam>::Fetch::init
FetchLResMut_init(st, T) ==
    IF is_read_or_write(st.resource_access, TypeIdOf(T))
    THEN [st EXCEPT !.panic = ConflictPanic]
    ELSE IF is_write(st.resource_access, TypeIdOfRollbackBuffer)
    THEN [st EXCEPT !.panic = MutatingPanic]
    ELSE [st EXCEPT !.resource_access =
                        add_write(add_read(@, TypeIdOfRollbackBuffer), TypeIdOf(T)),
                    !.params = @ \cup {<<"LResMut", T>>}]

\* bevy_ecs FetchResMut::init for ResMut<RollbackBuffer>
FetchResMut_init(st) ==
    IF is_read_or_write(st.resource_access, TypeIdOfRollbackBuffer)
    THEN [st EXCEPT !.panic = ConflictPanic]
    ELSE [st EXCEPT !.resource_access = add_write(@, TypeIdOfRollbackBuffer),
                    !.params = @ \cup {<<"ResMut", "RollbackBuffer">>}]

\* -------------------------------------------------------------------- Init
Init ==
    /\ newest_frame = 0
    /\ rollback_state = Rolledback(0)
    /\ current_world = 0
    /\ current_resources = EmptyResources
    /\ buffered_changes = [f \in {} |-> <<>>]
    /\ \E buffer_size \in 1..MaxCap :
          /\ past_worlds = [i \in 0..(buffer_size - 1) |-> None]
          /\ past_resources = [i \in 0..(buffer_size - 1) |-> None]
          /\ stored_for = [i \in 0..(buffer_size - 1) |-> -1]
    /\ resource_rollback = <<>>
    /\ resource_override = <<>>
    /\ initialized = FALSE
    /\ pc = "setup"
    /\ panic = "none"
    /\ last_call = NoCall
    /\ ncalls = 0
    /\ log = <<>>
    /\ napplied = 0
    /\ threads = [t \in Threads |-> Returned]
    /\ run_criteria \in BOOLEAN
    /\ should_run = "none"
    /\ system_state = NewSystem
    /\ commands = <<>>
    /\ world = 0
    /\ resources = AppResources

\* ------------------------------------------------------------ registration
track_resource(r) ==
    /\ pc = "setup" /\ panic = "none"
    /\ r \notin Range(resource_rollback)
    /\ current_resources' = Insert(current_resources, r, 0)
    /\ resource_rollback' = Append(resource_rollback, r)
    /\ UNCHANGED <<newest_frame, rollback_state, current_world, buffered_changes,
                   past_worlds, past_resources, resource_override, initialized,
                   pc, panic, last_call, ncalls, log, stored_for, napplied, threads>>
    /\ UNCHANGED stage

\* variant: the resource is registered in the override list only
override_resource_only(r) ==
    /\ pc = "setup" /\ panic = "none"
    /\ r \notin Range(resource_rollback) \cup Range(resource_override)
    /\ current_resources' = Insert(current_resources, r, 0)
    /\ resource_override' = Append(resource_override, r)
    /\ UNCHANGED <<newest_frame, rollback_state, current_world, buffered_changes,
                   past_worlds, past_resources, resource_rollback, initialized,
                   pc, panic, last_call, ncalls, log, stored_for, napplied, threads>>
    /\ UNCHANGED stage

override_resource(r) ==
    /\ pc = "setup" /\ panic = "none"
    /\ r \notin Range(resource_rollback)
    /\ current_resources' = Insert(current_resources, r, 0)
    /\ resource_rollback' = Append(resource_rollback, r)
    /\ resource_override' = Append(resource_override, r)
    /\ UNCHANGED <<newest_frame, rollback_state, current_world, buffered_changes,
                   past_worlds, past_resources, initialized,
                   pc, panic, last_call, ncalls, log, stored_for, napplied, threads>>
    /\ UNCHANGED stage

\* variant: the first snapshot is stored under frame 1
initialize_frame_one ==
    /\ pc = "setup" /\ panic = "none"
    /\ IF ~initialized
       THEN LET b == store_new_world(store_new_resources(Buf, 1), 1)
            IN  /\ past_worlds' = b.past_worlds
                /\ past_resources' = b.past_resources
                /\ stored_for' = b.stored_for
       ELSE UNCHANGED <<past_worlds, past_resources, stored_for>>
    /\ initialized' = TRUE
    /\ pc' = "idle"
    /\ UNCHANGED <<newest_frame, rollback_state, current_world, current_resources,
                   buffered_changes, resource_rollback, resource_override,
                   panic, last_call, ncalls, log, napplied, threads>>
    /\ UNCHANGED stage

\* Stage::initialize, called by the app before the first run
initialize ==
    /\ pc = "setup" /\ panic = "none"
    /\ IF ~initialized
       THEN LET b == store_new_world(store_new_resources(Buf, 0), 0)
            IN  /\ past_worlds' = b.past_worlds
                /\ past_resources' = b.past_resources
                /\ stored_for' = b.stored_for
       ELSE UNCHANGED <<past_worlds, past_resources, stored_for>>
    /\ initialized' = TRUE
    /\ pc' = "idle"
    /\ UNCHANGED <<newest_frame, rollback_state, current_world, current_resources,
                   buffered_changes, resource_rollback, resource_override,
                   panic, last_call, ncalls, log, napplied, threads>>
    /\ UNCHANGED stage

\* ------------------------------------------------------- past_frame_change
\* newest_frame - frame on usize: a frame beyond newest_frame overflows; the
\* build either panics (overflow checks) or wraps to a value >= the capacity
past_frame_change_overflow(frame) ==
    /\ frame > newest_frame
    /\ \/ /\ panic' = "attempt to subtract with overflow"
          /\ UNCHANGED last_call
       \/ /\ last_call' = [frame |-> frame, at |-> newest_frame, ret |-> "FrameTimeout"]
          /\ UNCHANGED panic
    /\ UNCHANGED <<buffer, initialized, pc, ncalls, log, stored_for, napplied, threads>>

\* variant: the capacity boundary taken one frame too far
FrameTimedOut_strict(frame) == newest_frame - frame > Cardinality(DOMAIN past_worlds)

FrameTimedOut(frame) == newest_frame - frame >= Cardinality(DOMAIN past_worlds)

\* variant: the rewind is requested before the frame is rejected
past_frame_change_timeout_late(frame) ==
    /\ frame <= newest_frame
    /\ FrameTimedOut(frame)
    /\ rollback_state' = Rollback(frame)
    /\ last_call' = [frame |-> frame, at |-> newest_frame, ret |-> "FrameTimeout"]
    /\ UNCHANGED <<newest_frame, current_world, current_resources, buffered_changes,
                   past_worlds, past_resources, resource_rollback, resource_override,
                   initialized, pc, panic, ncalls, log, stored_for, napplied, threads>>

past_frame_change_timeout(frame) ==
    /\ frame <= newest_frame
    /\ FrameTimedOut(frame)
    /\ last_call' = [frame |-> frame, at |-> newest_frame, ret |-> "FrameTimeout"]
    /\ UNCHANGED <<buffer, initialized, pc, panic, ncalls, log, stored_for, napplied, threads>>

\* variant: a pending rewind is never moved to an earlier frame
NextRollbackState_first(cur, frame) ==
    IF cur.tag = "Rolledback" THEN Rollback(frame) ELSE Rollback(cur.frame)

\* variant: the latest call wins
NextRollbackState_latest(cur, frame) == Rollback(frame)

NextRollbackState(cur, frame) ==
    IF cur.tag = "Rolledback" THEN Rollback(frame)
    ELSE IF frame < cur.frame THEN Rollback(frame)
    ELSE Rollback(cur.frame)

\* buffered_changes.entry(frame): add_system on an occupied entry, a new
\* stage holding op on a vacant one
Enqueue(q, frame, op) ==
    [f \in (DOMAIN q) \cup {frame} |->
        IF f = frame
        THEN (IF frame \in DOMAIN q THEN Append(q[frame], op) ELSE <<op>>)
        ELSE q[f]]

\* variant: the operation is also run on the live state at once
past_frame_change_ok_eager(frame, op) ==
    /\ frame <= newest_frame
    /\ ~FrameTimedOut(frame)
    /\ ncalls < MaxChanges
    /\ buffered_changes' = Enqueue(buffered_changes, frame, op)
    /\ rollback_state' = NextRollbackState(rollback_state, frame)
    /\ current_resources' = ApplyOp(op, current_resources)
    /\ last_call' = [frame |-> frame, at |-> newest_frame, ret |-> "Ok"]
    /\ ncalls' = ncalls + 1
    /\ log' = Logged(Event("change", frame, <<op>>, current_world, current_resources))
    /\ UNCHANGED <<newest_frame, current_world, past_worlds,
                   past_resources, resource_rollback, resource_override,
                   initialized, pc, panic, stored_for, napplied, threads>>

past_frame_change_ok(frame, op) ==
    /\ frame <= newest_frame
    /\ ~FrameTimedOut(frame)
    /\ ncalls < MaxChanges
    /\ buffered_changes' = Enqueue(buffered_changes, frame, op)
    /\ rollback_state' = NextRollbackState(rollback_state, frame)
    /\ last_call' = [frame |-> frame, at |-> newest_frame, ret |-> "Ok"]
    /\ ncalls' = ncalls + 1
    /\ log' = Logged(Event("change", frame, <<op>>, current_world, current_resources))
    /\ UNCHANGED <<newest_frame, current_world, current_resources, past_worlds,
                   past_resources, resource_rollback, resource_override,
                   initialized, pc, panic, stored_for, napplied, threads>>

past_frame_change(frame, op) ==
    /\ pc = "idle" /\ panic = "none"
    /\ \A t \in Threads : threads[t] = Returned
    /\ OpTarget(op) \in DOMAIN current_resources
    /\ \/ past_frame_change_overflow(frame)
       \/ past_frame_change_timeout(frame)
       \/ past_frame_change_ok(frame, op)
    /\ UNCHANGED stage

\* ------------------------------- past_frame_change, called concurrently
\* The call takes &self: systems of one parallel stage can be inside it at
\* the same time. Its steps: the timeout check (no lock; a rejected call
\* returns here and touches nothing), the entry update under the
\* buffered_changes mutex, the state update under the rollback_state mutex.
pfc_check(t, frame, op) ==
    /\ pc = "idle" /\ panic = "none"
    /\ threads[t] = Returned
    /\ OpTarget(op) \in DOMAIN current_resources
    /\ frame <= newest_frame
    /\ ~FrameTimedOut(frame)
    /\ ncalls < MaxChanges
    /\ ncalls' = ncalls + 1
    /\ threads' = [threads EXCEPT ![t] = [at |-> "buffered_changes", frame |-> frame,
                                           op |-> op, seen |-> rollback_state]]
    /\ UNCHANGED <<buffer, initialized, pc, panic, last_call, log, stored_for, napplied>>
    /\ UNCHANGED stage

pfc_buffered_changes(t) ==
    /\ threads[t].at = "buffered_changes"
    /\ buffered_changes' = Enqueue(buffered_changes, threads[t].frame, threads[t].op)
    /\ threads' = [threads EXCEPT ![t].at = "rollback_state", ![t].seen = rollback_state]
    /\ log' = Logged(Event("change", threads[t].frame, <<threads[t].op>>,
                            current_world, current_resources))
    /\ UNCHANGED <<newest_frame, rollback_state, current_world, current_resources,
                   past_worlds, past_resources, resource_rollback, resource_override,
                   initialized, pc, panic, last_call, ncalls, stored_for, napplied>>
    /\ UNCHANGED stage

\* variant: the state is read before the rollback_state mutex is taken
pfc_rollback_state_stale(t) ==
    /\ threads[t].at = "rollback_state"
    /\ rollback_state' = NextRollbackState(threads[t].seen, threads[t].frame)
    /\ threads' = [threads EXCEPT ![t] = Returned]
    /\ log' = Logged(Event("state", threads[t].frame, <<>>, current_world, current_resources))
    /\ UNCHANGED <<newest_frame, current_world, current_resources, buffered_changes,
                   past_worlds, past_resources, resource_rollback, resource_override,
                   initialized, pc, panic, last_call, ncalls, stored_for, napplied>>
    /\ UNCHANGED stage

pfc_rollback_state(t) ==
    /\ threads[t].at = "rollback_state"
    /\ rollback_state' = NextRollbackState(rollback_state, threads[t].frame)
    /\ threads' = [threads EXCEPT ![t] = Returned]
    /\ log' = Logged(Event("state", threads[t].frame, <<>>, current_world, current_resources))
    /\ UNCHANGED <<newest_frame, current_world, current_resources, buffered_changes,
                   past_worlds, past_resources, resource_rollback, resource_override,
                   initialized, pc, panic, last_call, ncalls, stored_for, napplied>>
    /\ UNCHANGED stage

\* --------------------------------------------------------------------- run
\* Stage::run: the run criteria is evaluated when run is entered ("idle")
\* and again after a tick that was answered YesAndLoop ("criteria")
\* the Yes and YesAndLoop arms: newest_frame += 1, then run_rollback
Tick(answer) ==
    /\ pc \in {"idle", "criteria"} /\ panic = "none"
    /\ \A t \in Threads : threads[t] = Returned
    /\ run_criteria
    /\ newest_frame < MaxFrame
    /\ should_run' = answer
    /\ newest_frame' = newest_frame + 1
    /\ pc' = "loop"
    /\ last_call' = NoCall
    /\ log' = Logged(Event("tick", newest_frame + 1, <<>>, current_world, current_resources))
    /\ UNCHANGED <<rollback_state, current_world, current_resources, buffered_changes,
                   past_worlds, past_resources, resource_rollback, resource_override,
                   initialized, panic, ncalls, stored_for, napplied, threads,
                   run_criteria, system_state, commands, world, resources>>

\* the run criteria answers ShouldRun::Yes: one tick
run == Tick("Yes")

\* the run criteria answers ShouldRun::YesAndLoop
run_YesAndLoop == Tick("YesAndLoop")

\* variant: the stage ticks although it has no run criteria
run_no_criteria_tick ==
    /\ pc = "idle" /\ panic = "none"
    /\ \A t \in Threads : threads[t] = Returned
    /\ ~run_criteria
    /\ newest_frame < MaxFrame
    /\ should_run' = "Yes"
    /\ newest_frame' = newest_frame + 1
    /\ pc' = "loop"
    /\ last_call' = NoCall
    /\ UNCHANGED <<rollback_state, current_world, current_resources, buffered_changes,
                   past_worlds, past_resources, resource_rollback, resource_override,
                   initialized, panic, ncalls, log, stored_for, napplied, threads,
                   run_criteria, system_state, commands, world, resources>>

\* run_criteria is None: should_run is ShouldRun::No and run returns
run_no_criteria ==
    /\ pc = "idle" /\ panic = "none"
    /\ \A t \in Threads : threads[t] = Returned
    /\ ~run_criteria
    /\ should_run' = "No"
    /\ last_call' = NoCall
    /\ UNCHANGED <<buffer, initialized, pc, panic, ncalls, log, stored_for, napplied,
                   threads, run_criteria, system_state, commands, world, resources>>

\* variant: the No arm ticks before it returns
run_No_tick ==
    /\ pc \in {"idle", "criteria"} /\ panic = "none"
    /\ \A t \in Threads : threads[t] = Returned
    /\ run_criteria
    /\ newest_frame < MaxFrame
    /\ should_run' = "No"
    /\ newest_frame' = newest_frame + 1
    /\ pc' = "idle"
    /\ last_call' = NoCall
    /\ UNCHANGED <<rollback_state, current_world, current_resources, buffered_changes,
                   past_worlds, past_resources, resource_rollback, resource_override,
                   initialized, panic, ncalls, log, stored_for, napplied, threads,
                   run_criteria, system_state, commands, world, resources>>

\* the run criteria answers ShouldRun::No (or nothing): run returns
run_No ==
    /\ pc \in {"idle", "criteria"} /\ panic = "none"
    /\ \A t \in Threads : threads[t] = Returned
    /\ run_criteria
    /\ should_run' = "No"
    /\ pc' = "idle"
    /\ last_call' = NoCall
    /\ UNCHANGED <<buffer, initialized, panic, ncalls, log, stored_for, napplied,
                   threads, run_criteria, system_state, commands, world, resources>>

\* variant: the rewind restores the resources through the copy functions
TakeSnapshot_copy(b, target, state) ==
    IF ~IsSome(b.past_worlds[target])
    THEN [b EXCEPT !.panic = "Frame doesn't exist!"]
    ELSE LET b1 == [b EXCEPT !.current_world = Unwrap(b.past_worlds[target]),
                             !.past_worlds[target] = None]
         IN  IF ~IsSome(b1.past_resources[target])
             THEN [b1 EXCEPT !.panic = "Frame doesn't exist!"]
             ELSE [b1 EXCEPT !.current_resources =
                                 CopyResources(b1.resource_rollback, b1.current_resources,
                                               Unwrap(b1.past_resources[target])),
                             !.past_resources[target] = None,
                             !.stored_for[target] = -1,
                             !.log = Append(@, Event("rewind", state,
                                                     CopyCalls(b1.resource_rollback),
                                                     b1.current_world,
                                                     Unwrap(b1.past_resources[target])))]

\* run_rollback, one iteration of the loop: the Rollback(state) arm
\* (the stored world and resources are moved into the live state; no
\* closure of resource_rollback is called)
TakeSnapshot(b, target, state) ==
    IF ~IsSome(b.past_worlds[target])
    THEN [b EXCEPT !.panic = "Frame doesn't exist!"]
    ELSE LET b1 == [b EXCEPT !.current_world = Unwrap(b.past_worlds[target]),
                             !.past_worlds[target] = None]
         IN  IF ~IsSome(b1.past_resources[target])
             THEN [b1 EXCEPT !.panic = "Frame doesn't exist!"]
             ELSE [b1 EXCEPT !.current_resources = Unwrap(b1.past_resources[target]),
                             !.past_resources[target] = None,
                             !.stored_for[target] = -1,
                             !.log = Append(@, Event("rewind", state, <<>>,
                                                     b1.current_world,
                                                     Unwrap(b1.past_resources[target])))]

RollbackTarget(state) == newest_frame % Cardinality(DOMAIN past_worlds)

run_rollback_Rollback ==
    /\ pc = "loop" /\ panic = "none"
    /\ rollback_state.tag = "Rollback"
    /\ LET state == rollback_state.frame
           b == TakeSnapshot(Buf, RollbackTarget(state), state)
       IN  /\ SetBuf(b)
           /\ rollback_state' = IF b.panic = "none" THEN Rolledback(state) ELSE rollback_state
    /\ UNCHANGED <<newest_frame, resource_rollback, resource_override,
                   initialized, pc, last_call, ncalls, threads>>
    /\ UNCHANGED stage

\* run_rollback, one iteration of the loop: the Rolledback(state) arm
CaughtUp(state) == state >= newest_frame

run_rollback_Rolledback ==
    /\ pc = "loop" /\ panic = "none"
    /\ rollback_state.tag = "Rolledback"
    /\ LET state == rollback_state.frame
       IN \E b \in {run_once(Buf, state)} :
           IF b.panic # "none"
           THEN /\ SetBuf(b)
                /\ UNCHANGED <<rollback_state, pc>>
           ELSE /\ rollback_state' = Rolledback(state + 1)
                /\ IF CaughtUp(state)
                   THEN /\ SetBuf([b EXCEPT !.log = Append(@, Event("return", state, <<>>,
                                                  b.current_world, b.current_resources))])
                        /\ pc' = IF should_run = "YesAndLoop" THEN "criteria" ELSE "idle"
                   ELSE /\ SetBuf(b)
                        /\ pc' = "loop"
    /\ UNCHANGED <<newest_frame, resource_rollback, resource_override,
                   initialized, last_call, ncalls, threads>>
    /\ UNCHANGED stage

\* the frames a caller passes: around both ends of the accepted window
CallFrames ==
    {f \in 0..(newest_frame + 1) : f >= newest_frame - Cardinality(DOMAIN past_worlds) - 1}

Next ==
    \/ \E r \in ResTypes : track_resource(r)
    \/ \E r \in ResTypes : override_resource(r)
    \/ initialize
    \/ \E frame \in CallFrames, op \in Ops : past_frame_change(frame, op)
    \/ run
    \/ run_no_criteria
    \/ run_rollback_Rollback
    \/ run_rollback_Rolledback

Spec == Init /\ [][Next]_vars

\* the same engine with past_frame_change called from two systems at once
NextConc ==
    \/ \E r \in ResTypes : track_resource(r)
    \/ \E r \in ResTypes : override_resource(r)
    \/ initialize
    \/ \E t \in Threads, frame \in CallFrames, op \in Ops : pfc_check(t, frame, op)
    \/ \E t \in Threads : pfc_buffered_changes(t)
    \/ \E t \in Threads : pfc_rollback_state(t)
    \/ run
    \/ run_rollback_Rollback
    \/ run_rollback_Rolledback

SpecConc == Init /\ [][NextConc]_vars

\* the same engine with every answer of the run criteria
NextRun ==
    \/ \E r \in ResTypes : track_resource(r)
    \/ \E r \in ResTypes : override_resource(r)
    \/ initialize
    \/ \E frame \in CallFrames, op \in Ops : past_frame_change(frame, op)
    \/ run
    \/ run_YesAndLoop
    \/ run_No
    \/ run_no_criteria
    \/ run_rollback_Rollback
    \/ run_rollback_Rolledback

SpecRun == Init /\ [][NextRun]_vars

\* a system of the logic schedule being initialized, one parameter at a time
system_init ==
    /\ system_state.panic = "none"
    /\ \/ \E T \in LogicTypes : system_state' = FetchLRes_init(system_state, T)
       \/ \E T \in LogicTypes : system_state' = FetchLResMut_init(system_state, T)
       \/ system_state' = FetchResMut_init(system_state)
    /\ UNCHANGED <<buffer, initialized, pc, panic, last_call, ncalls, log, stored_for,
                   napplied, threads, run_criteria, should_run,
                   commands, world, resources>>

NextSystem == system_init

SpecSystem == Init /\ [][NextSystem]_vars

\* a logic system of the initialized app queues a command:
\* LogicCommands::spawn / insert_resource
add_command(c) ==
    /\ pc = "idle" /\ panic = "none"
    /\ Len(commands) < MaxCommands
    /\ c.kind = "spawn" => current_world < MaxCommands
    /\ commands' = Append(commands, c)
    /\ UNCHANGED <<buffer, initialized, pc, panic, last_call, ncalls, log, stored_for,
                   napplied, threads, run_criteria, should_run, system_state,
                   world, resources>>

\* variant: the commands are run on the world and resources passed in
LogicCommands_apply_passed ==
    /\ pc = "idle" /\ panic = "none"
    /\ commands # <<>>
    /\ world' = CommandsApplyWorld(commands, world)
    /\ resources' = CommandsApplyResources(commands, resources)
    /\ commands' = <<>>
    /\ UNCHANGED <<buffer, initialized, pc, panic, last_call, ncalls, log, stored_for,
                   napplied, threads, run_criteria, should_run, system_state>>

\* LogicCommands::apply(world, resources): the commands are run on the
\* current_world / current_resources of the RollbackBuffer found in resources
LogicCommands_apply ==
    /\ pc = "idle" /\ panic = "none"
    /\ commands # <<>>
    /\ current_world' = CommandsApplyWorld(commands, current_world)
    /\ current_resources' = CommandsApplyResources(commands, current_resources)
    /\ commands' = <<>>
    /\ UNCHANGED <<newest_frame, rollback_state, buffered_changes, past_worlds,
                   past_resources, resource_rollback, resource_override,
                   initialized, pc, panic, last_call, ncalls, log, stored_for,
                   napplied, threads, run_criteria, should_run, system_state,
                   world, resources>>

NextCommands ==
    \/ \E r \in ResTypes : track_resource(r)
    \/ initialize
    \/ \E c \in CommandSet : add_command(c)
    \/ LogicCommands_apply

SpecCommands == Init /\ [][NextCommands]_vars

\* the replay loop is a plain loop: once entered, its arms keep running
FairSpec == Spec /\ WF_vars(run_rollback_Rollback) /\ WF_vars(run_rollback_Rolledback)

\* ======================================================== properties
\* positions of the log holding an event of kind e
EventsOf(e) == {i \in DOMAIN log : log[i].ev = e}

\* a tick has returned and nothing has happened since
TickReturned == pc = "idle" /\ panic = "none" /\ log # <<>> /\ Last(log).ev = "return"

\* the frames of the calls accepted since the last tick returned
PendingFrames ==
    IF log # <<>> /\ Last(log).ev = "return" THEN {}
    ELSE {log[i].frame : i \in EventsOf("change")}

\* C5: a call for a frame f <= newest_frame is accepted iff
\* newest_frame - f < capacity, and is answered FrameTimeout otherwise
C5_TimeoutBoundary ==
    (last_call.ret # "none" /\ last_call.frame <= last_call.at) =>
        /\ last_call.ret \in {"Ok", "FrameTimeout"}
        /\ last_call.ret = "Ok" <=> last_call.at - last_call.frame < Capacity

\* newest_frame >= C: frame newest_frame - C + 1 was accepted and then
\* frame newest_frame - C was answered FrameTimeout
C5_Witness ==
    /\ newest_frame >= Capacity
    /\ last_call = [frame |-> newest_frame - Capacity, at |-> newest_frame, ret |-> "FrameTimeout"]
    /\ PendingFrames = {newest_frame - Capacity + 1}

\* C6: a call answered FrameTimeout changes neither the queue, the rollback
\* state, newest_frame, the live state nor the snapshot ring
C6_TimeoutNoMutation ==
    [][(last_call'.ret = "FrameTimeout" /\ last_call' # last_call) =>
          UNCHANGED <<buffered_changes, rollback_state, newest_frame, current_world,
                      current_resources, past_worlds, past_resources>>]_vars

\* a call was rejected while the state was Rolledback and the ring populated
C6_Witness ==
    /\ last_call.ret = "FrameTimeout"
    /\ last_call.frame <= last_call.at
    /\ rollback_state.tag = "Rolledback"
    /\ IsSome(past_worlds[last_call.frame % Capacity])

\* C7: between two ticks, after one or more accepted calls, the state is
\* Rollback(m) with m the least frame passed to them
C7_EarliestWins ==
    (pc = "idle" /\ PendingFrames # {}) => rollback_state = Rollback(Min(PendingFrames))

\* frame 5 then frame 3 were accepted and the state is Rollback(3)
C7_Witness ==
    /\ pc = "idle" /\ panic = "none"
    /\ Len(log) = 2
    /\ log[1].ev = "change" /\ log[1].frame = 5
    /\ log[2].ev = "change" /\ log[2].frame = 3
    /\ rollback_state = Rollback(3)

\* ------------------------------------------- simulation from scratch
\* the frames and the batches of the calls recorded in the log
ScheduledFrames == {log[i].frame : i \in EventsOf("change")}

RECURSIVE OpsFor(_, _)
OpsFor(l, f) ==
    IF l = <<>> THEN <<>>
    ELSE (IF Head(l).ev = "change" /\ Head(l).frame = f THEN Head(l).ops ELSE <<>>)
         \o OpsFor(Tail(l), f)

\* the engine as initialised, with the recorded changes already queued
ScratchInit ==
    LET b == [current_world |-> 0,
              current_resources |-> [r \in Range(resource_rollback) |-> 0],
              buffered_changes |-> [f \in ScheduledFrames |-> OpsFor(log, f)],
              past_worlds |-> [i \in DOMAIN past_worlds |-> None],
              past_resources |-> [i \in DOMAIN past_resources |-> None],
              resource_rollback |-> resource_rollback,
              resource_override |-> resource_override,
              panic |-> "none",
              log |-> <<>>,
              stored_for |-> [i \in DOMAIN past_worlds |-> -1],
              napplied |-> 0]
    IN  store_new_world(store_new_resources(b, 0), 0)

\* frames f..n simulated in order, no rewind
RECURSIVE Simulate(_, _, _)
Simulate(b, f, n) == IF f > n THEN b ELSE Simulate(run_once(b, f), f + 1, n)

FromScratch(n) == Simulate(ScratchInit, 0, n)

\* C1: capacity C, one call schedule_change(k, op) made at frame N < C
\* (0 <= k <= N): after the next tick the live state equals the state of a
\* simulation of the same frames from scratch with op applied at frame k
C1_RewindCorrectness ==
    (/\ TickReturned
     /\ ncalls = 1
     /\ log[1].ev = "change"
     /\ newest_frame - 1 < Capacity) =>
        LET s == FromScratch(newest_frame)
        IN  /\ current_world = s.current_world
            /\ current_resources = s.current_resources

\* C2: capacity 4, a tracked counter incremented by every SimulationStep:
\* the counter is 5 at frame 5, schedule_change(2, set counter to 100) is
\* not answered FrameTimeout, and after the next tick the counter is 103
C2_EndToEnd ==
    /\ (Capacity = 4 /\ last_call.ret # "none" /\ last_call.at = 5 /\ last_call.frame = 2)
          => last_call.ret = "Ok"
    /\ (/\ TickReturned
        /\ Capacity = 4
        /\ "counter" \in Range(resource_rollback) \ Range(resource_override)
        /\ ncalls = 1
        /\ newest_frame = 6
        /\ log[1].ev = "change" /\ log[1].frame = 2 /\ log[1].ops = <<"set_counter_to_100">>) =>
            /\ log[1].res["counter"] = 5
            /\ current_resources["counter"] = 103

\* C3: with no schedule_change at all, after each tick returns the state is
\* Rolledback(newest_frame)
C3_Quiescence ==
    (TickReturned /\ ncalls = 0) => rollback_state = Rolledback(newest_frame)

\* C4: a tick started with no change pending, the first tick included,
\* invokes SimulationStep exactly once
C4_OneStepPerQuietTick ==
    (TickReturned /\ log[1].ev = "tick") => Cardinality(EventsOf("step")) = 1

\* C8: a tick started with changes pending rewinds once, to the least
\* pending frame, before it simulates anything; it then simulates each frame
\* once in increasing order and applies every pending batch, whole, at its
\* own frame, after the previous frame's SimulationStep and before its own;
\* when the tick returns every pending batch has been applied
C8_SinglePassReplay ==
    (ScheduledFrames # {} /\ EventsOf("tick") # {}) =>
        LET rew == EventsOf("rewind")
            app == EventsOf("apply")
            stp == EventsOf("step")
        IN  /\ Cardinality(rew) <= 1
            /\ \A j \in app \cup stp :
                  \E i \in rew : i < j /\ log[i].frame = Min(ScheduledFrames)
            /\ \A i, j \in app : i < j => log[i].frame < log[j].frame
            /\ \A i, j \in stp : i < j => log[i].frame < log[j].frame
            /\ \A i \in app :
                  /\ log[i].frame \in ScheduledFrames
                  /\ log[i].ops = OpsFor(log, log[i].frame)
                  /\ \A j \in stp : j < i => log[j].frame < log[i].frame
            /\ \A j \in stp :
                  log[j].frame \in ScheduledFrames =>
                      \E i \in app : /\ i < j
                                     /\ log[i].frame = log[j].frame
                                     /\ \A k \in stp : ~(i < k /\ k < j)
            /\ TickReturned =>
                  /\ Cardinality(rew) = 1
                  /\ {log[i].frame : i \in app} = ScheduledFrames

\* frames 5 and 3 were scheduled in that order; one pass rewound once and
\* applied the batch of 3 and then the batch of 5
C8_Witness ==
    /\ TickReturned
    /\ log[1].ev = "change" /\ log[1].frame = 5
    /\ log[2].ev = "change" /\ log[2].frame = 3
    /\ Cardinality(EventsOf("rewind")) = 1
    /\ {log[i].frame : i \in EventsOf("apply")} = {3, 5}

\* the events of the frame that ends at position k of the log
FrameEvents(k) ==
    {i \in 1..(k - 1) :
        \A j \in i..(k - 1) : log[j].ev \notin {"end", "rewind", "tick", "change"}}

\* C9 as stated: at the end of a frame an overridden resource holds the
\* value read from the snapshot, a track-only resource the value computed
\* by SimulationStep
C9_OverrideHoldsStored ==
    \A k \in EventsOf("end") : \A i, j \in FrameEvents(k) :
        (log[i].ev = "override" /\ log[j].ev = "store") =>
            \A r \in DOMAIN log[k].res :
                IF r \in Range(resource_override)
                THEN log[k].res[r] = log[i].res[r]
                ELSE log[k].res[r] = SimulationStepResources(log[j].res)[r]

\* C9 amended: the override is applied before SimulationStep, so at the end
\* of a frame an overridden resource holds what SimulationStep computed
\* from the value read from the snapshot, and a track-only resource what
\* SimulationStep computed from its live value
C9_OverrideBeforeStep ==
    \A k \in EventsOf("end") : \A i, j \in FrameEvents(k) :
        (log[i].ev = "override" /\ log[j].ev = "store") =>
            \A r \in DOMAIN log[k].res :
                IF r \in Range(resource_override)
                THEN log[k].res[r] = SimulationStepResources(log[i].res)[r]
                ELSE log[k].res[r] = SimulationStepResources(log[j].res)[r]

\* a frame was replayed after a rewind with one overridden and one
\* track-only resource registered
C9_Witness ==
    /\ Range(resource_override) # {}
    /\ Range(resource_rollback) \ Range(resource_override) # {}
    /\ \E i \in EventsOf("rewind"), j \in EventsOf("override"), k \in EventsOf("end") :
          i < j /\ j < k

\* C10: the slot the Rollback arm takes from always holds a snapshot
C10_RewindSlotPresent ==
    /\ panic # "Frame doesn't exist!"
    /\ (pc = "loop" /\ rollback_state.tag = "Rollback") =>
          /\ IsSome(past_worlds[RollbackTarget(rollback_state.frame)])
          /\ IsSome(past_resources[RollbackTarget(rollback_state.frame)])

\* C11: the Rollback(f) arm installs the snapshot of slot f % capacity
\* (world and resources) as the live state, leaves that slot empty and sets
\* the state to Rolledback(f)
C11_RewindTakesSlotOfFrame ==
    [][(/\ pc = "loop" /\ rollback_state.tag = "Rollback"
        /\ panic = "none" /\ panic' = "none"
        /\ rollback_state' # rollback_state) =>
          LET f == rollback_state.frame
              slot == f % Capacity
          IN  /\ Some(current_world') = past_worlds[slot]
              /\ Some(current_resources') = past_resources[slot]
              /\ past_worlds'[slot] = None
              /\ past_resources'[slot] = None
              /\ rollback_state' = Rolledback(f)]_vars

\* C12: when the tick after an accepted call for frame f reaches the rewind,
\* slot f % capacity still holds the snapshot stored for f itself, not one
\* stored for a newer frame congruent to f modulo the capacity
C12_RingRetention ==
    (pc = "loop" /\ panic = "none" /\ rollback_state.tag = "Rollback") =>
        \A f \in ScheduledFrames :
            /\ IsSome(past_worlds[f % Capacity])
            /\ IsSome(past_resources[f % Capacity])
            /\ stored_for[f % Capacity] = f

\* no system is inside past_frame_change
ThreadsReturned == \A t \in Threads : threads[t] = Returned

\* C13: once concurrent accepted calls have all returned, under every
\* interleaving of their two mutex sections, the state is Rollback(least
\* frame) and every operation is queued under its frame; the next tick then
\* rewinds once, to that frame
C13_ConcurrentCalls ==
    /\ (pc = "idle" /\ ThreadsReturned /\ PendingFrames # {}) =>
          /\ rollback_state = Rollback(Min(PendingFrames))
          /\ DOMAIN buffered_changes = PendingFrames
          /\ \A f \in PendingFrames : buffered_changes[f] = OpsFor(log, f)
    /\ (ScheduledFrames # {} /\ EventsOf("tick") # {}) =>
          /\ Cardinality(EventsOf("rewind")) <= 1
          /\ \A i \in EventsOf("rewind") : log[i].frame = Min(ScheduledFrames)
    /\ (TickReturned /\ ScheduledFrames # {}) => Cardinality(EventsOf("rewind")) = 1

\* the call for frame 5 queued first and updated the state last, the call
\* for frame 3 ran in between; the next tick rewound once, to frame 3
C13_Witness ==
    /\ TickReturned
    /\ Len(log) > 5
    /\ log[1].ev = "change" /\ log[1].frame = 5
    /\ log[2].ev = "change" /\ log[2].frame = 3
    /\ log[3].ev = "state" /\ log[3].frame = 3
    /\ log[4].ev = "state" /\ log[4].frame = 5
    /\ log[6].ev = "rewind" /\ log[6].frame = 3
    /\ Cardinality(EventsOf("rewind")) = 1

\* the operations waiting in the queue
RECURSIVE QueuedOps(_)
QueuedOps(q) ==
    IF DOMAIN q = {} THEN 0
    ELSE LET f == CHOOSE x \in DOMAIN q : TRUE
         IN  Len(q[f]) + QueuedOps([g \in (DOMAIN q) \ {f} |-> q[g]])

\* C14: every accepted operation is either still queued or has been applied
\* exactly once; a batch is applied only at the frame it was scheduled for,
\* in the tick that follows, and leaves the queue when it is applied; the
\* queue holds no empty batch
C14_AppliedAtMostOnce ==
    /\ napplied + QueuedOps(buffered_changes) = ncalls
    /\ \A f \in DOMAIN buffered_changes : buffered_changes[f] # <<>>
    /\ \A i \in EventsOf("apply") :
          /\ log[i].ops # <<>>
          /\ log[i].ops = OpsFor(log, log[i].frame)
          /\ log[i].frame \notin DOMAIN buffered_changes
          /\ \A j \in EventsOf("apply") : log[j].frame = log[i].frame => j = i

\* an operation applied in an earlier tick; a later tick rewound to frame 0
\* and replayed every frame, applying only the newly scheduled batch
C14_Witness ==
    /\ TickReturned
    /\ ncalls = 2 /\ napplied = 2
    /\ log[1].ev = "change" /\ log[1].frame = 0
    /\ log[2].ev = "tick"
    /\ newest_frame >= 3
    /\ Cardinality(EventsOf("apply")) = 1
    /\ Cardinality(EventsOf("step")) = newest_frame + 1

\* C15: a call for a frame beyond newest_frame is accepted: the subtraction
\* newest_frame - frame neither fails nor yields a FrameTimeout
C15_FutureFrameAccepted ==
    /\ panic # "attempt to subtract with overflow"
    /\ (last_call.ret # "none" /\ last_call.frame > last_call.at) =>
          last_call.ret = "Ok"

\* C16: each time a frame is simulated its deferred changes are applied
\* first, then the overrides, and only then SimulationStep runs; nothing is
\* applied or overridden once the step of the frame has started
C16_PerFrameOrdering ==
    \A k \in EventsOf("end") :
        /\ \E j \in FrameEvents(k) : log[j].ev = "step" /\ log[j].frame = log[k].frame
        /\ \A i, j \in FrameEvents(k) :
              /\ (log[i].ev = "apply" /\ log[j].ev \in {"override", "step"}) => i < j
              /\ (log[i].ev = "override" /\ log[j].ev = "step") => i < j
              /\ (log[i].ev \in {"apply", "override", "step"}) => log[i].frame = log[k].frame

\* a replayed frame had a deferred change, an override and its step, in
\* that order
C16_Witness ==
    \E k \in EventsOf("end") : \E a, o, st \in FrameEvents(k) :
        /\ log[a].ev = "apply" /\ log[o].ev = "override" /\ log[st].ev = "step"
        /\ a < o /\ o < st
        /\ EventsOf("rewind") # {}

\* C17: the snapshot stored under f + 1 while frame f is simulated is built
\* after SimulationStep of f has completed and equals the live state at the
\* end of frame f
C17_SnapshotAfterStep ==
    \A k \in EventsOf("end") : \A i, j \in FrameEvents(k) :
        (log[i].ev = "store" /\ log[j].ev = "step") =>
            /\ j < i
            /\ log[i].frame = log[k].frame + 1
            /\ log[i].world = log[k].world
            /\ log[i].res = log[k].res

\* the buffer as new and the first initialize left it
JustInitialized ==
    /\ initialized /\ pc = "idle" /\ panic = "none"
    /\ newest_frame = 0 /\ ncalls = 0 /\ ThreadsReturned

\* C18: after new and the first initialize the state is Rolledback(0),
\* newest_frame is 0, slot 0 holds a snapshot of the live state and every
\* other slot is empty
C18_Initialization ==
    JustInitialized =>
        /\ rollback_state = Rolledback(0)
        /\ past_worlds[0] = Some(current_world)
        /\ past_resources[0] =
              Some(CopyResources(resource_rollback, EmptyResources, current_resources))
        /\ \A s \in (DOMAIN past_worlds) \ {0} :
              past_worlds[s] = None /\ past_resources[s] = None

\* initialized with a ring of two or more slots and a tracked resource
C18_Witness ==
    /\ JustInitialized
    /\ Capacity >= 2
    /\ resource_rollback # <<>>

\* C19: the replay loop started by a tick ends, in a Rolledback state
C19_ReplayTerminates ==
    (pc = "loop") ~> (pc = "idle" /\ rollback_state.tag = "Rolledback")

\* C20: in a tick with no call since the previous one every snapshot store
\* and every override read is made for a frame inside
\* newest_frame - capacity + 1 .. newest_frame
C20_RingAccessWindow ==
    (log # <<>> /\ log[1].ev = "tick") =>
        \A i \in EventsOf("store") \cup EventsOf("override") :
            /\ log[i].frame >= newest_frame - Capacity + 1
            /\ log[i].frame <= newest_frame

\* C21: every resource type of the override list is in the rollback list;
\* a registration adds one type to the rollback list, and either nothing
\* (track_resource) or the same type (override_resource) to the override list
C21_OverrideImpliesTracked ==
    [][/\ Range(resource_override') \subseteq Range(resource_rollback')
       /\ (resource_rollback' # resource_rollback \/ resource_override' # resource_override) =>
             \E r \in ResTypes :
                /\ resource_rollback' = Append(resource_rollback, r)
                /\ \/ resource_override' = resource_override
                   \/ resource_override' = Append(resource_override, r)]_vars

\* one resource registered with track_resource, another with override_resource
C21_Witness ==
    /\ Len(resource_rollback) = 2
    /\ Len(resource_override) = 1
    /\ initialized

\* C22: an accepted call appends its operation to the queue entry of its
\* frame and requests a rewind; the live world, the live resources, every
\* ring slot and newest_frame stay as they were and no rewind is made
C22_AcceptedCallOnlyQueues ==
    [][(ncalls' = ncalls + 1) =>
         LET f == last_call'.frame
         IN  /\ last_call'.ret = "Ok"
             /\ DOMAIN buffered_changes' = (DOMAIN buffered_changes) \cup {f}
             /\ \A g \in (DOMAIN buffered_changes) \ {f} :
                   buffered_changes'[g] = buffered_changes[g]
             /\ \E op \in Ops :
                   buffered_changes'[f] =
                       IF f \in DOMAIN buffered_changes
                       THEN Append(buffered_changes[f], op) ELSE <<op>>
             /\ rollback_state'.tag = "Rollback"
             /\ UNCHANGED <<current_world, current_resources, past_worlds,
                            past_resources, newest_frame, pc, napplied>>
             /\ log' = Logged(Event("change", f, <<Last(buffered_changes'[f])>>,
                                     current_world, current_resources))]_vars

\* a second accepted call for a frame that already had an entry, after
\* some ticks, with the counter not at the value the operations write
C22_Witness ==
    /\ last_call.ret = "Ok"
    /\ newest_frame >= 2
    /\ \E f \in DOMAIN buffered_changes : Len(buffered_changes[f]) = 2
    /\ "counter" \in DOMAIN current_resources
    /\ current_resources["counter"] # 100

\* C23 as stated: each copy function of the rollback list is invoked once
\* when a snapshot is built and once when a rewind restores a snapshot
C23_CopyOncePerStoreAndRewind ==
    \A i \in EventsOf("store") \cup EventsOf("rewind") :
        \A k \in DOMAIN resource_rollback :
            Cardinality({j \in DOMAIN log[i].ops : log[i].ops[j] = resource_rollback[k]}) = 1

\* C23 amended: each copy function is invoked once when a snapshot is
\* built; a rewind invokes none, it moves the stored resources into the
\* live state
C23_CopyOncePerStore ==
    /\ \A i \in EventsOf("store") : log[i].ops = resource_rollback
    /\ \A i \in EventsOf("rewind") : log[i].ops = <<>>
    /\ (log # <<>> /\ Last(log).ev = "rewind") => current_resources = Last(log).res

\* a rewind restored a snapshot and a snapshot was built afterwards, with
\* two copy functions registered
C23_Witness ==
    /\ Len(resource_rollback) = 2
    /\ \E i \in EventsOf("rewind"), j \in EventsOf("store") : i < j

\* C24: every operation accepted between two ticks is applied in the next
\* tick: when a tick returns the queue is empty and every accepted
\* operation has been applied
C24_QueueEmptyAtReturn ==
    TickReturned =>
        /\ DOMAIN buffered_changes = {}
        /\ napplied = ncalls
        /\ \A f \in ScheduledFrames : \E i \in EventsOf("apply") : log[i].frame = f

\* two calls for different frames, the later frame first, and the tick
\* that followed has returned
C24_Witness ==
    /\ TickReturned
    /\ Len(log) > 2
    /\ log[1].ev = "change" /\ log[2].ev = "change"
    /\ log[2].frame < log[1].frame
    /\ Cardinality(EventsOf("apply")) = 2

\* C25: with an override function registered, the resource snapshot of
\* slot f % capacity is present each time the overrides are applied for
\* frame f
C25_OverrideSlotPresent ==
    /\ panic # "called Option::unwrap() on a None value"
    /\ (pc = "loop" /\ panic = "none" /\ rollback_state.tag = "Rolledback"
           /\ resource_override # <<>>) =>
          IsSome(past_resources[rollback_state.frame % Capacity])

\* C26: the value of an overridden resource that SimulationStep starts
\* from is the value held in the resource snapshot of slot f % capacity,
\* also when a deferred change of the frame wrote that resource
C26_OverrideWinsOverChange ==
    \A k \in EventsOf("end") : \A o, st \in FrameEvents(k) :
        (log[o].ev = "override" /\ log[st].ev = "step") =>
            \A r \in Range(resource_override) :
                /\ log[st].res[r] = SimulationStepResources(log[o].res)[r]
                /\ \A i \in FrameEvents(k) :
                      log[i].ev = "store" => log[i].res[r] = log[o].res[r]

\* a frame whose deferred change wrote 100 to the overridden counter while
\* the snapshot held another value
C26_Witness ==
    \E k \in EventsOf("end") : \E a, o, st \in FrameEvents(k) :
        /\ log[a].ev = "apply" /\ log[o].ev = "override" /\ log[st].ev = "step"
        /\ "counter" \in Range(resource_override)
        /\ log[a].res["counter"] = 100
        /\ log[o].res["counter"] # 100

\* C27: between operations the two halves of the ring are in lockstep
\* (a slot holds a world iff it holds resources) and both keep the length
\* they were built with
C27_RingLockstep ==
    [][/\ DOMAIN past_worlds' = DOMAIN past_worlds
       /\ DOMAIN past_resources' = DOMAIN past_resources
       /\ DOMAIN past_worlds' = DOMAIN past_resources'
       /\ (pc' \in {"idle", "criteria"}) =>
             \A i \in DOMAIN past_worlds' :
                IsSome(past_worlds'[i]) <=> IsSome(past_resources'[i])]_vars

\* a tick whose rewind emptied a slot has returned, in a ring of several
\* slots
C27_Witness ==
    /\ TickReturned
    /\ EventsOf("rewind") # {}
    /\ Capacity >= 2
    /\ \E i \in DOMAIN past_worlds : IsSome(past_worlds[i]) /\ IsSome(past_resources[i])

\* C28: without a run criteria, run returns without a tick: newest_frame
\* does not grow, the replay loop never starts, and a call of run leaves
\* the rollback state, the queue, the live state and the ring as they were
C28_NoCriteriaNoTick ==
    [][~run_criteria =>
         /\ newest_frame' = newest_frame
         /\ pc' # "loop"
         /\ napplied' = 0
         /\ (pc = "idle" /\ should_run' = "No" /\ last_call' = NoCall) =>
               UNCHANGED <<rollback_state, buffered_changes, current_world,
                           current_resources, past_worlds, past_resources, log>>]_vars

\* run was called with a change pending: the change is still queued and
\* the rewind still requested
C28_Witness ==
    /\ ~run_criteria
    /\ should_run = "No" /\ last_call = NoCall
    /\ DOMAIN buffered_changes # {}
    /\ rollback_state.tag = "Rollback"

\* C29: newest_frame grows only by one, on an answer Yes or YesAndLoop,
\* and the replay loop starts at once; the loop is complete before the
\* criteria is evaluated again (YesAndLoop) or run returns (Yes); an
\* answer No returns without a tick
C29_CriteriaArms ==
    [][/\ (newest_frame' # newest_frame \/ (pc # "loop" /\ pc' = "loop")) =>
             /\ pc \in {"idle", "criteria"} /\ pc' = "loop"
             /\ newest_frame' = newest_frame + 1
             /\ should_run' \in {"Yes", "YesAndLoop"}
       /\ (pc = "loop" /\ pc' # "loop") =>
             /\ rollback_state'.tag = "Rolledback"
             /\ log'[Len(log')].ev = "return"
             /\ pc' = IF should_run = "YesAndLoop" THEN "criteria" ELSE "idle"
       /\ (pc = "criteria" /\ pc' # "loop") =>
             /\ pc' = "idle" /\ should_run' = "No"
             /\ UNCHANGED buffer
       /\ (should_run' = "No" /\ should_run # "No") =>
             /\ pc' = "idle"
             /\ UNCHANGED buffer]_vars

\* a tick answered YesAndLoop has replayed a rewind to the end and the
\* criteria is about to be evaluated again
C29_Witness ==
    /\ pc = "criteria"
    /\ should_run = "YesAndLoop"
    /\ newest_frame >= 2
    /\ EventsOf("rewind") # {}
    /\ Last(log).ev = "return"

\* C30: no system gets through the initialization of both an LRes<T> and
\* an LResMut<T> parameter, in either order, nor of an LRes / LResMut
\* parameter together with write access to the RollbackBuffer
C30_AccessConflict ==
    /\ \A T \in LogicTypes :
          ~({<<"LRes", T>>, <<"LResMut", T>>} \subseteq system_state.params)
    /\ <<"ResMut", "RollbackBuffer">> \in system_state.params =>
          system_state.params = {<<"ResMut", "RollbackBuffer">>}

\* the value the last insert_resource of cs for r carries, old if none
RECURSIVE LastInserted(_, _, _)
LastInserted(cs, r, old) ==
    IF cs = <<>> THEN old
    ELSE LET c == cs[Len(cs)]
         IN  IF c.kind = "insert_resource" /\ c.res = r THEN Some(c.value)
             ELSE LastInserted(SubSeq(cs, 1, Len(cs) - 1), r, old)

====
